---- MODULE Spec2Model ----
(***************************************************************************)
(* Persistent game-state store of russian_roulette: one shared document    *)
(* ("game-data": leaderboard, prize pool, player stats, player balances)   *)
(* read and written by independent server instances, each with its own     *)
(* module-level cache, plus the deposit verifier and the prize             *)
(* distribution of the game API route.                                      *)
(*                                                                         *)
(* Money is counted in hundredths of a USDC (Unit = 1 USDC), so that the   *)
(* percentage shares of the prize distribution are integers.               *)
(***************************************************************************)
EXTENDS Integers, Sequences, FiniteSets, Bags, TLC

\* ------------------------------------------------------------------ bounds
NumInstances == 2    \* concurrently running server instances
NumPlayers == 2      \* distinct player addresses
MaxJoins == 2        \* joins accepted on top of the seeded pool
MaxPaid == 5         \* largest paid partition a distribution is run on
MaxLogs == 2         \* distributions recorded in the distribution log
MaxDeposits == 2     \* deposits credited
MaxPrizes == 1       \* pending prizes added per address (in USDC)
MaxEvents == 2       \* trigger pulls and deaths recorded per address

Unit == 100          \* model units per USDC

Instances == 1..NumInstances

\* ------------------------------------------------------------- addresses
\* An address is a hex string; only its identity and its letter case matter.
\* Player 1 also occurs in an upper-case spelling.
Addr(n, u) == [id |-> n, upper |-> u]
Addresses == {Addr(n, FALSE) : n \in 1..NumPlayers} \cup {Addr(1, TRUE)}

Players == {Addr(n, FALSE) : n \in 1..NumPlayers}

\* String.prototype.toLowerCase on an address
toLowerCase(a) == [a EXCEPT !.upper = FALSE]

\* --------------------------------------------------------- document model
Modes == {"free", "paid"}

LeaderboardEntry(a, pulls, deaths, streak, paid) ==
  [address |-> a, triggerPulls |-> pulls, deaths |-> deaths,
   maxStreak |-> streak, rank |-> 0, isPaid |-> paid]

\* the module-level initial value of the cache, and the seed document
EmptyDoc ==
  [leaderboard |-> [free |-> << >>, paid |-> << >>],
   prizePool |-> [totalAmount |-> 0, participants |-> 0],
   playerStats |-> << >>,
   playerBalances |-> << >>]

Put(map, k, v) == [x \in (DOMAIN map) \cup {k} |-> IF x = k THEN v ELSE map[x]]

\* ------------------------------------------------------------------ state
VARIABLES
  store,          \* the remote key "game-data": [exists, doc]
  cache,          \* cache[i]: module-level memoryStore of instance i
  isInitialized,  \* isInitialized[i]: ensureInitialized has run on instance i
  pc,             \* pc[i]: position of the request instance i is handling
  local,          \* local[i]: locals of the request instance i is handling
  logs,           \* the distribution log (logs/prize_distributions.json)
  credits,        \* credits[<<address, hash>>]: credits made for that deposit
  response        \* the reply most recently sent to a client

vars == <<store, cache, isInitialized, pc, local, logs, credits, response>>

NoLocal ==
  [op |-> "none", address |-> Addr(1, FALSE), amount |-> 0, hash |-> 0,
   currency |-> "USDC", expected |-> 0, data |-> EmptyDoc, after |-> "idle", reply |-> "none",
   pool |-> 0]

\* ------------------------------------------------------ leaderboard ranker
\* a comparator that ranks more deaths first
compareDeathsDescending(a, b) ==
  IF b.maxStreak # a.maxStreak THEN b.maxStreak - a.maxStreak
  ELSE IF b.triggerPulls # a.triggerPulls THEN b.triggerPulls - a.triggerPulls
  ELSE b.deaths - a.deaths

\* comparator of board.sort: negative when a goes before b
compare(a, b) ==
  IF b.maxStreak # a.maxStreak THEN b.maxStreak - a.maxStreak
  ELSE IF b.triggerPulls # a.triggerPulls THEN b.triggerPulls - a.triggerPulls
  ELSE a.deaths - b.deaths

\* board.findIndex(e => e.address.toLowerCase() === address.toLowerCase()),
\* 0 when there is none
RECURSIVE findIndexFrom(_, _, _)
findIndexFrom(board, a, k) ==
  IF k > Len(board) THEN 0
  ELSE IF toLowerCase(board[k].address) = toLowerCase(a) THEN k
  ELSE findIndexFrom(board, a, k + 1)

\* a findIndex that matches the address case-sensitively
RECURSIVE findIndexExactFrom(_, _, _)
findIndexExactFrom(board, a, k) ==
  IF k > Len(board) THEN 0
  ELSE IF board[k].address = a THEN k
  ELSE findIndexExactFrom(board, a, k + 1)

findIndexCaseSensitive(board, a) == findIndexExactFrom(board, a, 1)

findIndex(board, a) == findIndexFrom(board, a, 1)

\* board.splice(index, 1)
splice1(board, k) ==
  [j \in 1..(Len(board) - 1) |-> IF j < k THEN board[j] ELSE board[j + 1]]

\* an insertion that puts e before the elements it ties with
RECURSIVE insertSortedBeforeTies(_, _)
insertSortedBeforeTies(s, e) ==
  IF s = << >> THEN <<e>>
  ELSE IF compare(Head(s), e) < 0 THEN <<Head(s)>> \o insertSortedBeforeTies(Tail(s), e)
  ELSE <<e>> \o s

\* stable insertion of e into a sorted sequence: after every element that
\* does not compare greater than e
RECURSIVE insertSorted(_, _)
insertSorted(s, e) ==
  IF s = << >> THEN <<e>>
  ELSE IF compare(Head(s), e) <= 0 THEN <<Head(s)>> \o insertSorted(Tail(s), e)
  ELSE <<e>> \o s

\* Array.prototype.sort with the comparator above (a stable sort)
RECURSIVE sortFrom(_, _)
sortFrom(sorted, rest) ==
  IF rest = << >> THEN sorted
  ELSE sortFrom(insertSorted(sorted, Head(rest)), Tail(rest))

sortBoard(board) == sortFrom(<< >>, board)

\* board.forEach((entry, idx) => entry.rank = idx + 1)
assignRanks(board) == [k \in 1..Len(board) |-> [board[k] EXCEPT !.rank = k]]

\* the board of updateLeaderboardEntry after remove, push, sort and rank
upsertBoard(board, entry) ==
  LET index == findIndex(board, entry.address)
      removed == IF index >= 1 THEN splice1(board, index) ELSE board
  IN assignRanks(sortBoard(Append(removed, entry)))

\* ------------------------------------------------------- partition cap
BoardCap == 2        \* entries kept per partition (50 in the source)

\* a cap that keeps every entry
capBoardNone(board) == board

\* if (board.length > 50) board.splice(50)
capBoard(board) == IF Len(board) > BoardCap THEN SubSeq(board, 1, BoardCap) ELSE board

\* the board of the capped updateLeaderboardEntry: remove, push, sort, rank,
\* then the cap
upsertBoardCapped(board, entry) == capBoard(upsertBoard(board, entry))

\* ------------------------------------------------------------ store engine
totalEntries(doc) == Len(doc.leaderboard.free) + Len(doc.leaderboard.paid)

\* the guard of saveData: a write that would empty a non-empty leaderboard
guardBlocks(data) ==
  /\ store.exists
  /\ totalEntries(store.doc) > 0
  /\ totalEntries(data) = 0

\* loadData: the persisted document, or the cache when there is none
loadData(i) == IF store.exists THEN store.doc ELSE cache[i]

Present(doc) == [exists |-> TRUE, doc |-> doc]

\* ---------------------------------------------------------------- actions
\* first request of an instance: ensureInitialized -> initStorage -> loadData
EnsureInitialized(i) ==
  /\ pc[i] = "idle"
  /\ ~isInitialized[i]
  /\ cache' = [cache EXCEPT ![i] = loadData(i)]
  /\ isInitialized' = [isInitialized EXCEPT ![i] = TRUE]
  /\ UNCHANGED <<store, pc, local, logs, credits, response>>

\* an idle instance is recycled: its module-level state starts over
ColdStart(i) ==
  /\ pc[i] = "idle"
  /\ isInitialized[i]
  /\ cache' = [cache EXCEPT ![i] = EmptyDoc]
  /\ isInitialized' = [isInitialized EXCEPT ![i] = FALSE]
  /\ UNCHANGED <<store, pc, local, logs, credits, response>>

\* saveData: the write of local[i].data reaches the store, unless the guard
\* blocks it; the request then continues at local[i].after
Save(i) ==
  /\ pc[i] = "save"
  /\ store' = IF guardBlocks(local[i].data) THEN store ELSE Present(local[i].data)
  /\ pc' = [pc EXCEPT ![i] = local[i].after]
  /\ response' = IF local[i].after = "idle" /\ local[i].reply # "none"
                 THEN local[i].reply ELSE response
  /\ local' = [local EXCEPT ![i] = IF local[i].after = "idle" THEN NoLocal ELSE @]
  /\ UNCHANGED <<cache, isInitialized, logs, credits>>

\* saveData when the write throws: the catch logs, nothing reaches the store,
\* and the request continues at local[i].after as after a write that landed
SaveFailed(i) ==
  /\ pc[i] = "save"
  /\ pc' = [pc EXCEPT ![i] = local[i].after]
  /\ response' = IF local[i].after = "idle" /\ local[i].reply # "none"
                 THEN local[i].reply ELSE response
  /\ local' = [local EXCEPT ![i] = IF local[i].after = "idle" THEN NoLocal ELSE @]
  /\ UNCHANGED <<store, cache, isInitialized, logs, credits>>

\* updateLeaderboardEntry(mode, entry): getData, upsert, sort, rank, saveData
UpdateLeaderboardEntry(i, mode, entry) ==
  /\ pc[i] = "idle"
  /\ isInitialized[i]
  /\ LET data == cache[i]
         board == upsertBoard(data.leaderboard[mode], entry)
         newData == [data EXCEPT !.leaderboard[mode] = board]
     IN /\ cache' = [cache EXCEPT ![i] = newData]
        /\ local' = [local EXCEPT ![i] =
                       [NoLocal EXCEPT !.op = "updateLeaderboardEntry",
                                       !.address = entry.address,
                                       !.data = newData, !.after = "idle"]]
  /\ pc' = [pc EXCEPT ![i] = "save"]
  /\ UNCHANGED <<store, isInitialized, logs, credits, response>>

\* updateLeaderboardEntry(mode, entry) of the Edge Config storage: as above,
\* with the cap before saveData
UpdateLeaderboardEntryCapped(i, mode, entry) ==
  /\ pc[i] = "idle"
  /\ isInitialized[i]
  /\ LET data == cache[i]
         board == upsertBoardCapped(data.leaderboard[mode], entry)
         newData == [data EXCEPT !.leaderboard[mode] = board]
     IN /\ cache' = [cache EXCEPT ![i] = newData]
        /\ local' = [local EXCEPT ![i] =
                       [NoLocal EXCEPT !.op = "updateLeaderboardEntry",
                                       !.address = entry.address,
                                       !.data = newData, !.after = "idle"]]
  /\ pc' = [pc EXCEPT ![i] = "save"]
  /\ UNCHANGED <<store, isInitialized, logs, credits, response>>

\* ---------------------------------------------------------- balance ledger
NoRef == 0           \* no external transaction reference given

DefaultBalance ==
  [balance |-> 0, pendingPrizes |-> 0, totalDeposited |-> 0,
   totalWithdrawn |-> 0, transactions |-> << >>]

getPlayerBalance(doc, a) ==
  IF a \in DOMAIN doc.playerBalances THEN doc.playerBalances[a] ELSE DefaultBalance

Outcome(error, doc) == [error |-> error, doc |-> doc]

\* addBalance(address, amount, kind, externalTxRef?)
addBalance(doc, a, amount, kind, ref) ==
  LET b == getPlayerBalance(doc, a)
  IN IF ref # NoRef /\ \E k \in 1..Len(b.transactions) : b.transactions[k].ref = ref
     THEN Outcome("DuplicateTransaction", doc)
     ELSE Outcome("none",
            [doc EXCEPT !.playerBalances = Put(@, a,
               [b EXCEPT !.balance = @ + amount,
                         !.totalDeposited = IF kind = "deposit" THEN @ + amount ELSE @,
                         !.transactions = Append(@, [type |-> kind, amount |-> amount,
                                                     ref |-> ref])])])

\* deductBalance(address, amount, kind)
deductBalance(doc, a, amount, kind) ==
  LET b == getPlayerBalance(doc, a)
  IN IF b.balance < amount
     THEN Outcome("InsufficientBalance", doc)
     ELSE Outcome("none",
            [doc EXCEPT !.playerBalances = Put(@, a,
               [b EXCEPT !.balance = @ - amount,
                         !.totalWithdrawn = IF kind = "withdrawal" THEN @ + amount ELSE @])])

\* a pending prize that is also paid into the balance
addPendingPrizeToBalance(doc, a, amount) ==
  LET b == getPlayerBalance(doc, a)
  IN Outcome("none",
       [doc EXCEPT !.playerBalances =
          Put(@, a, [b EXCEPT !.pendingPrizes = @ + amount, !.balance = @ + amount])])

\* addPendingPrize(address, amount)
addPendingPrize(doc, a, amount) ==
  LET b == getPlayerBalance(doc, a)
  IN Outcome("none",
       [doc EXCEPT !.playerBalances = Put(@, a, [b EXCEPT !.pendingPrizes = @ + amount])])

\* an approval that credits the balance and leaves the pending prizes
approvePendingPrizeKeepPending(doc, a, amount) ==
  LET b == getPlayerBalance(doc, a)
  IN IF b.pendingPrizes < amount
     THEN Outcome("InsufficientPending", doc)
     ELSE Outcome("none",
            [doc EXCEPT !.playerBalances = Put(@, a, [b EXCEPT !.balance = @ + amount])])

\* approvePendingPrize(address, amount)
approvePendingPrize(doc, a, amount) ==
  LET b == getPlayerBalance(doc, a)
  IN IF b.pendingPrizes < amount
     THEN Outcome("InsufficientPending", doc)
     ELSE Outcome("none",
            [doc EXCEPT !.playerBalances = Put(@, a,
               [b EXCEPT !.pendingPrizes = @ - amount, !.balance = @ + amount])])

\* a storage operation on the loaded document: its error goes to the caller,
\* its document to saveData
Mutate(i, op, a, amount, r) ==
  /\ cache' = [cache EXCEPT ![i] = r.doc]
  /\ IF r.error # "none"
     THEN /\ response' = r.error
          /\ pc' = [pc EXCEPT ![i] = "idle"]
          /\ local' = [local EXCEPT ![i] = NoLocal]
     ELSE /\ pc' = [pc EXCEPT ![i] = "save"]
          /\ local' = [local EXCEPT ![i] =
                         [NoLocal EXCEPT !.op = op, !.address = a, !.amount = amount,
                                         !.data = r.doc, !.after = "idle",
                                         !.reply = "success"]]
          /\ UNCHANGED response

\* !address || !amount || amount <= 0 without the amount <= 0 test
invalidAmountZeroOnly(amount) == amount = 0

\* !amount || amount <= 0
invalidAmount(amount) == amount = 0 \/ amount <= 0

\* POST action withdraw
Withdraw(i, a, amount) ==
  /\ pc[i] = "idle"
  /\ isInitialized[i]
  /\ IF invalidAmount(amount)
     THEN /\ response' = "InvalidData"
          /\ UNCHANGED <<cache, pc, local>>
     ELSE Mutate(i, "withdraw", a, amount, deductBalance(loadData(i), a, amount, "withdrawal"))
  /\ UNCHANGED <<store, isInitialized, logs, credits>>

\* POST action approvePrize
ApprovePrize(i, a, amount) ==
  /\ pc[i] = "idle"
  /\ isInitialized[i]
  /\ IF invalidAmount(amount)
     THEN /\ response' = "InvalidData"
          /\ UNCHANGED <<cache, pc, local>>
     ELSE Mutate(i, "approvePrize", a, amount,
                 approvePendingPrize(loadData(i), a, amount))
  /\ UNCHANGED <<store, isInitialized, logs, credits>>

\* prizes ever added to an address, as far as the document tells
PrizesAdded(b) == b.balance + b.pendingPrizes + b.totalWithdrawn - b.totalDeposited

\* a pending prize is added for an address
AddPendingPrize(i, a, amount) ==
  /\ pc[i] = "idle"
  /\ isInitialized[i]
  /\ PrizesAdded(getPlayerBalance(loadData(i), a)) < MaxPrizes * Unit
  /\ Mutate(i, "addPendingPrize", a, amount, addPendingPrize(loadData(i), a, amount))
  /\ UNCHANGED <<store, isInitialized, logs, credits>>

\* the entry fee of a game: deductBalance(address, 1, 'entry_fee')
EntryFee(i, a) ==
  /\ pc[i] = "idle"
  /\ isInitialized[i]
  /\ Mutate(i, "entryFee", a, Unit, deductBalance(loadData(i), a, Unit, "entry_fee"))
  /\ UNCHANGED <<store, isInitialized, logs, credits>>

\* ------------------------------------------------------ deposit verification
\* wallets, in the spelling the route is configured with
USDC_ADDRESS == Addr(101, TRUE)
DEPOSIT_WALLET == Addr(102, TRUE)
ETH_DEPOSIT_WALLET == Addr(103, TRUE)
OtherWallet == Addr(104, TRUE)
NoAddress == Addr(0, FALSE)           \* the empty string

ETH_PRICE_USD == 3000
UsdcDecimals == 1000000               \* raw USDC units per USDC
ValuePerEth == 10000                  \* tx.value is held in units of 10^14 wei

TransferLog(contract, from, to, value) ==
  [address |-> contract, from |-> from, to |-> to, value |-> value]

Tx(status, from, to, value, events) ==
  [status |-> status, from |-> from, to |-> to, value |-> value, logs |-> events]

\* the transactions the chain holds, by hash; addresses are mixed case on chain
Chain ==
  << \* 1: 1 USDC from player 1 to the deposit wallet
     Tx("success", Addr(1, TRUE), toLowerCase(USDC_ADDRESS), 0,
        << TransferLog(OtherWallet, Addr(2, TRUE), DEPOSIT_WALLET, 5 * UsdcDecimals),
           TransferLog(toLowerCase(USDC_ADDRESS), Addr(1, TRUE),
                       toLowerCase(DEPOSIT_WALLET), UsdcDecimals) >>),
     \* 2: 1 USDC from player 2 to another wallet
     Tx("success", Addr(2, TRUE), USDC_ADDRESS, 0,
        << TransferLog(USDC_ADDRESS, Addr(2, TRUE), OtherWallet, UsdcDecimals) >>),
     \* 3: 0.0001 ETH from player 1 to the ETH deposit wallet
     Tx("success", Addr(1, TRUE), toLowerCase(ETH_DEPOSIT_WALLET), 1, << >>),
     \* 4: 0.0001 ETH from player 2 to the USDC deposit wallet
     Tx("success", Addr(2, TRUE), DEPOSIT_WALLET, 1, << >>),
     \* 5: a reverted USDC transfer from player 1 to the deposit wallet
     Tx("reverted", Addr(1, TRUE), USDC_ADDRESS, 0,
        << TransferLog(USDC_ADDRESS, Addr(1, TRUE), DEPOSIT_WALLET, UsdcDecimals) >>),
     \* 6: a call of the USDC contract by player 2 whose only Transfer log is
     \* that of another token
     Tx("success", Addr(2, TRUE), USDC_ADDRESS, 0,
        << TransferLog(OtherWallet, Addr(2, TRUE), DEPOSIT_WALLET, UsdcDecimals) >>),
     \* 7: 1 USDC from player 1 to the deposit wallet, not yet confirmed
     Tx("pending", Addr(1, TRUE), USDC_ADDRESS, 0,
        << TransferLog(USDC_ADDRESS, Addr(1, TRUE), DEPOSIT_WALLET, UsdcDecimals) >>),
     \* 8: a call of another contract by player 1 that made the USDC contract
     \* transfer 1 USDC from player 1 to the deposit wallet
     Tx("success", Addr(1, TRUE), OtherWallet, 0,
        << TransferLog(USDC_ADDRESS, Addr(1, TRUE), DEPOSIT_WALLET, UsdcDecimals) >>) >>

Hashes == 1..(Len(Chain) + 1)         \* the last hash is not on the chain
Currencies == {"USDC", "ETH"}

\* for (const log of receipt.logs): the first Transfer log of the USDC contract
RECURSIVE firstTransfer(_, _)
firstTransfer(events, k) ==
  IF k > Len(events) THEN TransferLog(NoAddress, NoAddress, NoAddress, 0)
  ELSE IF toLowerCase(events[k].address) = toLowerCase(USDC_ADDRESS) THEN events[k]
  ELSE firstTransfer(events, k + 1)

Verified(error, usdValue) == [error |-> error, usdValue |-> usdValue]

\* transferFrom.toLowerCase() !== address.toLowerCase()
senderMismatch(from, address) == toLowerCase(from) # toLowerCase(address)

\* the recipient test of the deposit action, never failing
recipientMismatchNever(to, wallet) == FALSE

\* transferTo.toLowerCase() !== wallet.toLowerCase()
recipientMismatch(to, wallet) == toLowerCase(to) # toLowerCase(wallet)

\* a receipt test that lets every receipt through
receiptFailedNever(status) == FALSE

\* receipt.status !== 'success'
receiptFailed(status) == status # "success"

\* getTransactionReceipt throws: the chain has no receipt for the hash, because
\* it does not know the transaction or has not confirmed it
receiptAbsent(hash) == hash > Len(Chain) \/ Chain[hash].status = "pending"

\* a contract test that lets every transaction through
notUsdcContractNever(to) == FALSE

\* receipt.to?.toLowerCase() !== USDC_ADDRESS.toLowerCase()
notUsdcContract(to) == toLowerCase(to) # toLowerCase(USDC_ADDRESS)

\* the verification part of the deposit action
verifyDeposit(address, hash, currency) ==
  IF receiptAbsent(hash) THEN Verified("TransactionNotFound", 0)
  ELSE LET tx == Chain[hash]
           log == firstTransfer(tx.logs, 1)
       IN IF receiptFailed(tx.status) THEN Verified("TransactionFailed", 0)
          ELSE IF currency = "ETH"
          THEN IF senderMismatch(tx.from, address) THEN Verified("SenderMismatch", 0)
               ELSE IF recipientMismatch(tx.to, ETH_DEPOSIT_WALLET)
               THEN Verified("RecipientMismatch", 0)
               ELSE Verified("none", (tx.value * ETH_PRICE_USD * Unit) \div ValuePerEth)
          ELSE IF notUsdcContract(tx.to)
               THEN Verified("NotUsdcTransfer", 0)
               ELSE IF senderMismatch(log.from, address) THEN Verified("SenderMismatch", 0)
               ELSE IF recipientMismatch(log.to, DEPOSIT_WALLET)
               THEN Verified("RecipientMismatch", 0)
               ELSE Verified("none", (log.value * Unit) \div UsdcDecimals)

\* a credit of the amount the client expects, when it names one
creditedAmountExpected(usdValue, expectedAmount) ==
  IF expectedAmount # 0 THEN expectedAmount ELSE usdValue

\* the amount handed to addBalance: usdValue; expectedAmount only decides
\* whether a warning is logged
creditedAmount(usdValue, expectedAmount) == usdValue

InFlightDeposits == Cardinality({i \in Instances : pc[i] = "deposit_credit"})

\* POST action deposit, up to the end of the verification
Deposit(i, address, hash, expectedAmount, currency) ==
  /\ pc[i] = "idle"
  /\ isInitialized[i]
  /\ BagCardinality(credits) + InFlightDeposits < MaxDeposits
  /\ LET v == verifyDeposit(address, hash, currency)
     IN IF v.error # "none"
        THEN /\ response' = v.error
             /\ UNCHANGED <<pc, local>>
        ELSE /\ pc' = [pc EXCEPT ![i] = "deposit_credit"]
             /\ local' = [local EXCEPT ![i] =
                            [NoLocal EXCEPT !.op = "deposit", !.address = address,
                                            !.hash = hash, !.currency = currency,
                                            !.expected = expectedAmount,
                                            !.amount = creditedAmount(v.usdValue,
                                                                      expectedAmount)]]
             /\ UNCHANGED response
  /\ UNCHANGED <<store, cache, isInitialized, logs, credits>>

\* POST action deposit: addBalance(address, usdValue, 'deposit')
DepositCredit(i) ==
  /\ pc[i] = "deposit_credit"
  /\ LET r == addBalance(loadData(i), local[i].address, local[i].amount, "deposit", NoRef)
     IN /\ cache' = [cache EXCEPT ![i] = r.doc]
        /\ IF r.error # "none"
           THEN /\ response' = r.error
                /\ pc' = [pc EXCEPT ![i] = "idle"]
                /\ local' = [local EXCEPT ![i] = NoLocal]
                /\ UNCHANGED credits
           ELSE /\ pc' = [pc EXCEPT ![i] = "save"]
                /\ local' = [local EXCEPT ![i].data = r.doc, ![i].after = "idle",
                                          ![i].reply = "success"]
                /\ credits' = credits (+) SetToBag({<<local[i].address, local[i].hash>>})
                /\ UNCHANGED response
  /\ UNCHANGED <<store, isInitialized, logs>>

\* ------------------------------------------------------------- prize pool
Undefined == -1      \* a key that the caller of updatePrizePool left out

PoolUpdate(setAmount, setParticipants, incAmount, incParticipants) ==
  [totalAmount |-> setAmount, participants |-> setParticipants,
   incrementAmount |-> incAmount, incrementParticipants |-> incParticipants]

OrZero(x) == IF x = Undefined THEN 0 ELSE x

\* an updatePrizePool that applies the increments and nothing else
updatePrizePoolIncrementOnly(prizePool, update) ==
  [totalAmount |-> prizePool.totalAmount + OrZero(update.incrementAmount),
   participants |-> prizePool.participants + OrZero(update.incrementParticipants)]

\* the prizePool that updatePrizePool computes from the loaded one: an
\* absolute value when the caller gives one (the route gives them under the
\* keys totalAmount and participants), the increment otherwise
updatePrizePool(prizePool, update) ==
  [totalAmount |-> IF update.totalAmount # Undefined
                   THEN update.totalAmount
                   ELSE prizePool.totalAmount + OrZero(update.incrementAmount),
   participants |-> IF update.participants # Undefined
                    THEN update.participants
                    ELSE prizePool.participants + OrZero(update.incrementParticipants)]

\* joins are accepted until MaxJoins of them are in the pool on top of a seed
SeedPool == 100      \* the pool of the distribution round trip, in USDC
JoinAllowed(doc) == doc.prizePool.totalAmount % (SeedPool * Unit) < MaxJoins * Unit

DefaultStats ==
  [triggerPulls |-> 0, deaths |-> 0, maxStreak |-> 0, currentStreak |-> 0,
   isPaid |-> FALSE]

\* getPlayerStats(address) || { address, triggerPulls: 0, ... }
getPlayerStats(doc, a) ==
  IF a \in DOMAIN doc.playerStats THEN doc.playerStats[a] ELSE DefaultStats

\* joinPrizePool, first part: updatePrizePool({incrementAmount: 1,
\* incrementParticipants: 1}) loads the document and starts its save
JoinPrizePool(i, a) ==
  /\ pc[i] = "idle"
  /\ isInitialized[i]
  /\ JoinAllowed(loadData(i))
  /\ LET data == loadData(i)
         newData == [data EXCEPT !.prizePool =
                       updatePrizePool(@, PoolUpdate(Undefined, Undefined, Unit, 1))]
     IN /\ cache' = [cache EXCEPT ![i] = newData]
        /\ local' = [local EXCEPT ![i] =
                       [NoLocal EXCEPT !.op = "joinPrizePool", !.address = a,
                                       !.data = newData, !.after = "join_stats"]]
  /\ pc' = [pc EXCEPT ![i] = "save"]
  /\ UNCHANGED <<store, isInitialized, logs, credits, response>>

\* joinPrizePool, second part: existingStats.isPaid = true, updatePlayerStats
JoinStats(i) ==
  /\ pc[i] = "join_stats"
  /\ LET a == local[i].address
         data == cache[i]
         existingStats == [getPlayerStats(data, a) EXCEPT !.isPaid = TRUE]
         newData == [data EXCEPT !.playerStats = Put(@, a, existingStats)]
     IN /\ cache' = [cache EXCEPT ![i] = newData]
        /\ local' = [local EXCEPT ![i].data = newData, ![i].after = "join_reply"]
  /\ pc' = [pc EXCEPT ![i] = "save"]
  /\ UNCHANGED <<store, isInitialized, logs, credits, response>>

\* joinPrizePool, last part: loadData for the response
JoinReply(i) ==
  /\ pc[i] = "join_reply"
  /\ cache' = [cache EXCEPT ![i] = loadData(i)]
  /\ pc' = [pc EXCEPT ![i] = "idle"]
  /\ local' = [local EXCEPT ![i] = NoLocal]
  /\ response' = "success"
  /\ UNCHANGED <<store, isInitialized, logs, credits>>

\* ------------------------------------------------------------ game events
\* triggerPull: { ...existingStats, triggerPulls + 1, currentStreak + 1 }
triggerPullStats(existingStats) ==
  [existingStats EXCEPT !.triggerPulls = @ + 1, !.currentStreak = @ + 1]

\* a death that counts and resets the streak without recording it
deathStatsStreakLost(existingStats) ==
  [existingStats EXCEPT !.deaths = @ + 1, !.currentStreak = 0]

\* death: { ...existingStats, deaths + 1, maxStreak: max(maxStreak,
\* currentStreak), currentStreak: 0 }
deathStats(existingStats) ==
  [existingStats EXCEPT !.deaths = @ + 1,
                        !.maxStreak = IF existingStats.currentStreak > @
                                      THEN existingStats.currentStreak ELSE @,
                        !.currentStreak = 0]

CashoutStreak == 7   \* the streak that a cashout locks in

\* a cashout that records the streak of the run
cashoutStatsCurrentStreak(existingStats) ==
  [existingStats EXCEPT !.maxStreak = IF existingStats.currentStreak > @
                                      THEN existingStats.currentStreak ELSE @,
                        !.currentStreak = 0]

\* cashout: { ...existingStats, maxStreak: max(maxStreak, 7), currentStreak: 0 }
cashoutStats(existingStats) ==
  [existingStats EXCEPT !.maxStreak = IF CashoutStreak > @ THEN CashoutStreak ELSE @,
                        !.currentStreak = 0]

\* updatePlayerStats(address, updatedStats): getData, merge, saveData; the
\* request goes on with updateLeaderboardEntry
RecordEvent(i, a, op, updatedStats) ==
  /\ pc[i] = "idle"
  /\ isInitialized[i]
  /\ updatedStats.triggerPulls + updatedStats.deaths <= MaxEvents
  /\ LET data == cache[i]
         newData == [data EXCEPT !.playerStats = Put(@, a, updatedStats)]
     IN /\ cache' = [cache EXCEPT ![i] = newData]
        /\ local' = [local EXCEPT ![i] =
                       [NoLocal EXCEPT !.op = op, !.address = a, !.data = newData,
                                       !.after = "event_board"]]
  /\ pc' = [pc EXCEPT ![i] = "save"]
  /\ UNCHANGED <<store, isInitialized, logs, credits, response>>

\* POST action triggerPull, up to the save of updatePlayerStats
TriggerPull(i, a) ==
  RecordEvent(i, a, "triggerPull", triggerPullStats(getPlayerStats(cache[i], a)))

\* POST action death, up to the save of updatePlayerStats
Death(i, a) ==
  RecordEvent(i, a, "death", deathStats(getPlayerStats(cache[i], a)))

\* POST action cashout, up to the save of updatePlayerStats
Cashout(i, a) ==
  RecordEvent(i, a, "cashout", cashoutStats(getPlayerStats(cache[i], a)))

\* POST actions triggerPull and death, second part: updateLeaderboardEntry
\* with the fields of updatedStats, up to its save; then the response
EventBoard(i) ==
  /\ pc[i] = "event_board"
  /\ LET a == local[i].address
         updatedStats == local[i].data.playerStats[a]
         mode == IF updatedStats.isPaid THEN "paid" ELSE "free"
         entry == LeaderboardEntry(a, updatedStats.triggerPulls, updatedStats.deaths,
                                   updatedStats.maxStreak, updatedStats.isPaid)
         data == cache[i]
         newData == [data EXCEPT !.leaderboard[mode] = upsertBoard(@, entry)]
     IN /\ cache' = [cache EXCEPT ![i] = newData]
        /\ local' = [local EXCEPT ![i].data = newData, ![i].after = "idle",
                                  ![i].reply = "success"]
  /\ pc' = [pc EXCEPT ![i] = "save"]
  /\ UNCHANGED <<store, isInitialized, logs, credits, response>>

\* ------------------------------------------------------ prize distribution
\* a payout that hands the share of the lower ranks to the top 3 when there
\* is nobody ranked 4th or below
payoutRedistributed(totalAmount, k, n) ==
  CASE n <= 3 /\ k = 1 -> (totalAmount * 40) \div 100 + ((totalAmount * 10) \div 100) \div n
    [] n <= 3 /\ k = 2 -> (totalAmount * 25) \div 100 + ((totalAmount * 10) \div 100) \div n
    [] n <= 3 /\ k = 3 -> (totalAmount * 15) \div 100 + ((totalAmount * 10) \div 100) \div n
    [] n > 3 /\ k = 1 -> (totalAmount * 40) \div 100
    [] n > 3 /\ k = 2 -> (totalAmount * 25) \div 100
    [] n > 3 /\ k = 3 -> (totalAmount * 15) \div 100
    [] OTHER -> ((totalAmount * 10) \div 100) \div (n - 3)

\* share of totalAmount paid to the participant ranked k among n
payout(totalAmount, k, n) ==
  CASE k = 1 -> (totalAmount * 40) \div 100
    [] k = 2 -> (totalAmount * 25) \div 100
    [] k = 3 -> (totalAmount * 15) \div 100
    [] OTHER -> ((totalAmount * 10) \div 100) \div (n - 3)

\* calculatePrizeDistributionForLeaderboard: re-rank, then one pending
\* PrizeDistribution per participant
calculatePrizeDistributionForLeaderboard(totalAmount, paidEntries) ==
  LET ranked == sortBoard(paidEntries)
  IN [k \in 1..Len(ranked) |->
        [address |-> ranked[k].address,
         amount |-> payout(totalAmount, k, Len(ranked)),
         status |-> "pending"]]

\* a guard that refuses only when both conditions hold
nothingToDistributeBoth(paidEntries, prizePool) ==
  Len(paidEntries) = 0 /\ prizePool.totalAmount = 0

\* paidEntries.length === 0 || data.prizePool.totalAmount === 0
nothingToDistribute(paidEntries, prizePool) ==
  Len(paidEntries) = 0 \/ prizePool.totalAmount = 0

\* distributePrizes, first part: loadData, the guard, the calculation and
\* saveDistributionLog
DistributePrizes(i) ==
  /\ pc[i] = "idle"
  /\ isInitialized[i]
  /\ Len(logs) < MaxLogs
  /\ LET data == loadData(i)
         paidEntries == data.leaderboard.paid
     IN /\ cache' = [cache EXCEPT ![i] = data]
        /\ IF nothingToDistribute(paidEntries, data.prizePool)
           THEN /\ response' = "NothingToDistribute"
                /\ UNCHANGED <<pc, local, logs>>
           ELSE /\ logs' = Append(logs,
                     [distributionId |-> Len(logs) + 1,
                      prizePoolAmount |-> data.prizePool.totalAmount,
                      participants |-> Len(paidEntries),
                      distributions |->
                        calculatePrizeDistributionForLeaderboard(
                          data.prizePool.totalAmount, paidEntries)])
                /\ pc' = [pc EXCEPT ![i] = "dist_reset"]
                /\ local' = [local EXCEPT ![i] =
                               [NoLocal EXCEPT !.op = "distributePrizes",
                                               !.pool = data.prizePool.totalAmount]]
                /\ UNCHANGED response
  /\ UNCHANGED <<store, isInitialized, credits>>

\* distributePrizes, second part: updatePrizePool({totalAmount: 0,
\* participants: 0}) loads the document and starts its save
DistributeReset(i) ==
  /\ pc[i] = "dist_reset"
  /\ LET data == loadData(i)
         newData == [data EXCEPT !.prizePool =
                       updatePrizePool(@, PoolUpdate(0, 0, Undefined, Undefined))]
     IN /\ cache' = [cache EXCEPT ![i] = newData]
        /\ local' = [local EXCEPT ![i].data = newData, ![i].after = "dist_reply"]
  /\ pc' = [pc EXCEPT ![i] = "save"]
  /\ UNCHANGED <<store, isInitialized, logs, credits, response>>

\* distributePrizes, last part: loadData for the response
DistributeReply(i) ==
  /\ pc[i] = "dist_reply"
  /\ cache' = [cache EXCEPT ![i] = loadData(i)]
  /\ pc' = [pc EXCEPT ![i] = "idle"]
  /\ local' = [local EXCEPT ![i] = NoLocal]
  /\ response' = "success"
  /\ UNCHANGED <<store, isInitialized, logs, credits>>

\* -------------------------------------------------- distribution approval
NoId == 0            \* a request without distributionId

\* the first record of the address, whatever its status
RECURSIVE firstOfAddress(_, _, _)
firstOfAddress(distributions, userAddress, k) ==
  IF k > Len(distributions) THEN 0
  ELSE IF toLowerCase(distributions[k].address) = toLowerCase(userAddress) THEN k
  ELSE firstOfAddress(distributions, userAddress, k + 1)

\* the for loop of approveDistribution: the index of the first record with
\* dist.address.toLowerCase() === userAddress.toLowerCase() &&
\* dist.status === 'pending', 0 when the loop ends without a break
RECURSIVE firstPending(_, _, _)
firstPending(distributions, userAddress, k) ==
  IF k > Len(distributions) THEN 0
  ELSE IF /\ toLowerCase(distributions[k].address) = toLowerCase(userAddress)
          /\ distributions[k].status = "pending" THEN k
  ELSE firstPending(distributions, userAddress, k + 1)

\* the body of logs.forEach: a log with the requested distributionId gets the
\* record found by the loop replaced by an approved copy
approveIn(log, distributionId, userAddress) ==
  LET k == firstPending(log.distributions, userAddress, 1)
  IN IF log.distributionId = distributionId /\ k >= 1
     THEN [log EXCEPT !.distributions[k].status = "approved"]
     ELSE log

\* POST action approveDistribution: getDistributionLogs, the forEach, the
\* found test and writeFileSync run without an await, as one step
ApproveDistribution(i, distributionId, userAddress) ==
  /\ pc[i] = "idle"
  /\ isInitialized[i]
  /\ IF distributionId = NoId
     THEN /\ response' = "MissingData"
          /\ UNCHANGED logs
     ELSE LET updated == [n \in 1..Len(logs) |->
                            approveIn(logs[n], distributionId, userAddress)]
              found == \E n \in 1..Len(logs) :
                         /\ logs[n].distributionId = distributionId
                         /\ firstPending(logs[n].distributions, userAddress, 1) >= 1
          IN IF ~found
             THEN /\ response' = "DistributionNotFound"
                  /\ UNCHANGED logs
             ELSE /\ response' = "success"
                  /\ logs' = updated
  /\ UNCHANGED <<store, cache, isInitialized, pc, local, credits>>

\* ------------------------------------------------- leaderboard partition
\* <<maxStreak, triggerPulls, deaths>> of the entries upserted: each level of
\* the sort key decides the order of at least one pair
Keys == {<<0, 0, 0>>, <<0, 1, 0>>, <<0, 1, 1>>, <<1, 0, 1>>}

Entries ==
  {LeaderboardEntry(a, k[2], k[3], k[1], FALSE) : a \in Addresses, k \in Keys}

InitCommon ==
  /\ cache = [i \in Instances |-> EmptyDoc]
  /\ isInitialized = [i \in Instances |-> FALSE]
  /\ pc = [i \in Instances |-> "idle"]
  /\ local = [i \in Instances |-> NoLocal]
  /\ logs = << >>
  /\ credits = EmptyBag
  /\ response = "none"

InitBoard ==
  /\ store = Present(EmptyDoc)
  /\ InitCommon

NextBoard ==
  \E i \in Instances :
    \/ EnsureInitialized(i)
    \/ ColdStart(i)
    \/ Save(i)
    \/ \E e \in Entries : UpdateLeaderboardEntry(i, "free", e)

SpecBoard == InitBoard /\ [][NextBoard]_vars

\* ---------------------------------------------- prize pool and distribution
\* a paid partition of n players as updateLeaderboardEntry leaves it
PaidBoard(n) ==
  assignRanks(sortBoard(
    [k \in 1..n |-> LeaderboardEntry(Addr(k, FALSE), k % 2, 0, k \div 2, TRUE)]))

PoolDocs ==
  {[EmptyDoc EXCEPT !.leaderboard.paid = PaidBoard(n),
                    !.prizePool = [totalAmount |-> seed * Unit, participants |-> seed]] :
     n \in {0, MaxPaid - 1, MaxPaid}, seed \in {0, SeedPool}}

InitPool ==
  /\ store \in {Present(d) : d \in PoolDocs}
  /\ InitCommon

\* every request of this specification starts with loadData, so that a
\* recycled instance behaves as a warm one: ColdStart is left out
NextPool ==
  \E i \in Instances :
    \/ EnsureInitialized(i)
    \/ Save(i)
    \/ \E a \in Players : JoinPrizePool(i, a)
    \/ JoinStats(i)
    \/ JoinReply(i)
    \/ DistributePrizes(i)
    \/ DistributeReset(i)
    \/ DistributeReply(i)

SpecPool == InitPool /\ [][NextPool]_vars

\* ------------------------------------------------------------------ ledger
RequestAmounts == {0 - Unit, 0, Unit}            \* the amount field of a request
ExpectedAmounts == {0, 5 * Unit}
Holders == {Addr(1, FALSE)}                   \* addresses that withdraw and win

InitLedger ==
  /\ store = Present(EmptyDoc)
  /\ InitCommon

NextLedger ==
  \E i \in Instances :
    \/ EnsureInitialized(i)
    \/ Save(i)
    \/ \E a \in Players, h \in Hashes, x \in ExpectedAmounts, c \in Currencies :
         Deposit(i, a, h, x, c)
    \/ DepositCredit(i)
    \/ \E a \in Holders, x \in RequestAmounts : Withdraw(i, a, x)
    \/ \E a \in Holders, x \in RequestAmounts : ApprovePrize(i, a, x)
    \/ \E a \in Holders : AddPendingPrize(i, a, Unit)
    \/ \E a \in Holders : EntryFee(i, a)

SpecLedger == InitLedger /\ [][NextLedger]_vars

\* --------------------------------------------------------- initialisation
\* the document the initialisation routes write
initialData == EmptyDoc

Absent == [exists |-> FALSE, doc |-> EmptyDoc]

\* init-game-data POST, first part: get('game-data') and the test on it
InitGameData(i) ==
  /\ pc[i] = "idle"
  /\ IF store.exists
     THEN /\ response' = "skipped"
          /\ UNCHANGED <<pc, local>>
     ELSE /\ pc' = [pc EXCEPT ![i] = "init_write"]
          /\ local' = [local EXCEPT ![i] = [NoLocal EXCEPT !.op = "initGameData"]]
          /\ UNCHANGED response
  /\ UNCHANGED <<store, cache, isInitialized, logs, credits>>

\* init-edge-config POST with the existence test; a read that throws is
\* caught and the initialisation goes on
InitEdgeConfigChecked(i, readFails) ==
  /\ pc[i] = "idle"
  /\ IF store.exists /\ ~readFails
     THEN /\ response' = "skipped"
          /\ UNCHANGED <<pc, local>>
     ELSE /\ pc' = [pc EXCEPT ![i] = "init_write"]
          /\ local' = [local EXCEPT ![i] = [NoLocal EXCEPT !.op = "initEdgeConfig"]]
          /\ UNCHANGED response
  /\ UNCHANGED <<store, cache, isInitialized, logs, credits>>

\* the PATCH of an initialisation route: upsert of game-data
InitWrite(i) ==
  /\ pc[i] = "init_write"
  /\ store' = Present(initialData)
  /\ pc' = [pc EXCEPT ![i] = "idle"]
  /\ local' = [local EXCEPT ![i] = NoLocal]
  /\ response' = "created"
  /\ UNCHANGED <<cache, isInitialized, logs, credits>>

\* init-edge-config POST: upsert of game-data, without a test
InitEdgeConfig(i) ==
  /\ pc[i] = "idle"
  /\ store' = Present(initialData)
  /\ response' = "created"
  /\ UNCHANGED <<cache, isInitialized, pc, local, logs, credits>>

InitEntries == {LeaderboardEntry(Addr(n, FALSE), 1, 0, 1, FALSE) : n \in 1..NumPlayers}

InitInit ==
  /\ store = Absent
  /\ InitCommon

NextInit ==
  \E i \in Instances :
    \/ EnsureInitialized(i)
    \/ ColdStart(i)
    \/ Save(i)
    \/ \E e \in InitEntries : UpdateLeaderboardEntry(i, "free", e)
    \/ InitGameData(i)
    \/ \E b \in BOOLEAN : InitEdgeConfigChecked(i, b)
    \/ InitWrite(i)
    \/ InitEdgeConfig(i)

SpecInit == InitInit /\ [][NextInit]_vars

\* ------------------------------------------------------------------ events
InitStats ==
  /\ store = Present(EmptyDoc)
  /\ InitCommon

NextStats ==
  \E i \in Instances :
    \/ EnsureInitialized(i)
    \/ ColdStart(i)
    \/ Save(i)
    \/ \E a \in Players : TriggerPull(i, a)
    \/ \E a \in Players : Death(i, a)
    \/ EventBoard(i)

SpecStats == InitStats /\ [][NextStats]_vars

\* ------------------------------------------------------------ letter case
\* trigger pulls that name one address in both spellings
CasePlayers == {Addr(1, FALSE), Addr(1, TRUE)}

InitCase ==
  /\ store = Present(EmptyDoc)
  /\ InitCommon

NextCase ==
  \E i \in Instances :
    \/ EnsureInitialized(i)
    \/ Save(i)
    \/ \E a \in CasePlayers : TriggerPull(i, a)
    \/ EventBoard(i)

SpecCase == InitCase /\ [][NextCase]_vars

\* ------------------------------------------------------------------ outage
\* trigger pulls while writes to the store may fail
InitOutage ==
  /\ store = Present(EmptyDoc)
  /\ InitCommon

NextOutage ==
  \E i \in Instances :
    \/ EnsureInitialized(i)
    \/ Save(i)
    \/ SaveFailed(i)
    \/ \E a \in Players : TriggerPull(i, a)
    \/ EventBoard(i)

SpecOutage == InitOutage /\ [][NextOutage]_vars

\* ------------------------------------------------------------------ prizes
\* pending prizes and their approval, on documents in which both players hold
\* a balance record
PrizeAmounts == {0 - Unit, 0, Unit, 2 * Unit}     \* the amount field of a request

\* a balance record after a deposit of b, if any, and prizes of p
PrizeBalances ==
  {[DefaultBalance EXCEPT
      !.balance = b, !.pendingPrizes = p, !.totalDeposited = b,
      !.transactions = IF b = 0 THEN << >>
                       ELSE <<[type |-> "deposit", amount |-> b, ref |-> NoRef]>>] :
     b \in {0, Unit}, p \in {0, Unit, 2 * Unit}}

PrizeDocs ==
  {[EmptyDoc EXCEPT !.playerBalances =
      [a \in Players |-> IF a = Addr(1, FALSE) THEN b1 ELSE b2]] :
     b1 \in PrizeBalances, b2 \in PrizeBalances}

InitPrizes ==
  /\ store \in {Present(d) : d \in PrizeDocs}
  /\ InitCommon

NextPrizes ==
  \E i \in Instances :
    \/ EnsureInitialized(i)
    \/ Save(i)
    \/ \E a \in Players, x \in PrizeAmounts : ApprovePrize(i, a, x)
    \/ \E a \in Players : AddPendingPrize(i, a, Unit)

SpecPrizes == InitPrizes /\ [][NextPrizes]_vars

\* ---------------------------------------------------------------- approval
\* distributions of a seeded pool and the approval of their records
ApproveIds == 0..(MaxLogs + 1)

ApprovePools == {7, SeedPool}          \* joins in the pool, 1 USDC each

ApproveDocs ==
  {[EmptyDoc EXCEPT !.leaderboard.paid = PaidBoard(n),
                    !.prizePool = [totalAmount |-> joins * Unit,
                                   participants |-> joins]] :
     n \in {NumPlayers, NumPlayers + 1, MaxPaid - 1, MaxPaid}, joins \in ApprovePools}

InitApprove ==
  /\ store \in {Present(d) : d \in ApproveDocs}
  /\ InitCommon

NextApprove ==
  \E i \in Instances :
    \/ EnsureInitialized(i)
    \/ Save(i)
    \/ DistributePrizes(i)
    \/ DistributeReset(i)
    \/ DistributeReply(i)
    \/ \E id \in ApproveIds, a \in Addresses : ApproveDistribution(i, id, a)

SpecApprove == InitApprove /\ [][NextApprove]_vars

\* --------------------------------------------------------------------- cap
\* one player more than a partition keeps; each has played, so each has a
\* playerStats record, and the partition holds the best BoardCap of them
CapAddresses == {Addr(n, FALSE) : n \in 1..(BoardCap + 1)}

CapStats(a) ==
  [DefaultStats EXCEPT !.triggerPulls = 1, !.maxStreak = a.id % 2]

CapSeq == [n \in 1..(BoardCap + 1) |-> Addr(n, FALSE)]

CapDoc ==
  [EmptyDoc EXCEPT
     !.playerStats = [a \in CapAddresses |-> CapStats(a)],
     !.leaderboard.free =
        SubSeq(assignRanks(sortBoard(
                 [n \in 1..(BoardCap + 1) |->
                    LeaderboardEntry(CapSeq[n], CapStats(CapSeq[n]).triggerPulls, 0,
                                     CapStats(CapSeq[n]).maxStreak, FALSE)])),
               1, BoardCap)]

\* <<maxStreak, triggerPulls, deaths>> of the entries upserted: below and
\* above every entry of CapDoc
CapKeys == {<<0, 0, 0>>, <<1, 2, 0>>}

CapEntries ==
  {LeaderboardEntry(a, k[2], k[3], k[1], FALSE) : a \in CapAddresses, k \in CapKeys}

InitCap ==
  /\ store = Present(CapDoc)
  /\ InitCommon

NextCap ==
  \E i \in Instances :
    \/ EnsureInitialized(i)
    \/ Save(i)
    \/ \E e \in CapEntries : UpdateLeaderboardEntryCapped(i, "free", e)

SpecCap == InitCap /\ [][NextCap]_vars

\* ------------------------------------------------------------ all events
\* trigger pulls, deaths and cashouts of the players on warm instances
EventPlayers == {Addr(1, FALSE)}

InitEvents ==
  /\ store = Present(EmptyDoc)
  /\ InitCommon

NextEvents ==
  \E i \in Instances :
    \/ EnsureInitialized(i)
    \/ Save(i)
    \/ \E a \in EventPlayers : TriggerPull(i, a)
    \/ \E a \in EventPlayers : Death(i, a)
    \/ \E a \in EventPlayers : Cashout(i, a)
    \/ EventBoard(i)

SpecEvents == InitEvents /\ [][NextEvents]_vars

\* ---------------------------------------------------------------- upgrade
\* a player who plays for free, joins the prize pool and plays on
InitUpgrade ==
  /\ store = Present(EmptyDoc)
  /\ InitCommon

NextUpgrade ==
  \E i \in Instances :
    \/ EnsureInitialized(i)
    \/ Save(i)
    \/ \E a \in EventPlayers : TriggerPull(i, a)
    \/ EventBoard(i)
    \/ \E a \in EventPlayers : JoinPrizePool(i, a)
    \/ JoinStats(i)
    \/ JoinReply(i)

SpecUpgrade == InitUpgrade /\ [][NextUpgrade]_vars

\* ================================================================= claims
\* the documents of a state: the persisted one and every instance's copy
PersistedBoards == IF store.exists THEN {store.doc.leaderboard[m] : m \in Modes} ELSE {}

\* a goes strictly before b under maxStreak desc, triggerPulls desc, deaths asc
KeyBefore(a, b) ==
  \/ a.maxStreak > b.maxStreak
  \/ a.maxStreak = b.maxStreak /\ a.triggerPulls > b.triggerPulls
  \/ a.maxStreak = b.maxStreak /\ a.triggerPulls = b.triggerPulls /\ a.deaths < b.deaths

\* C4: every persisted partition is ordered by maxStreak descending, then
\* triggerPulls descending, then deaths ascending, and the rank of the entry
\* at position k is k (ranks are exactly 1..N)
C4_SortedAndRanked ==
  \A board \in PersistedBoards :
    /\ \A k, j \in 1..Len(board) : k < j => ~KeyBefore(board[j], board[k])
    /\ \A k \in 1..Len(board) : board[k].rank = k

\* two entries that differ only in deaths are persisted, fewer deaths first
C4_Witness ==
  /\ store.exists
  /\ Len(store.doc.leaderboard.free) = 2
  /\ store.doc.leaderboard.free[1].maxStreak = store.doc.leaderboard.free[2].maxStreak
  /\ store.doc.leaderboard.free[1].triggerPulls = store.doc.leaderboard.free[2].triggerPulls
  /\ store.doc.leaderboard.free[1].deaths < store.doc.leaderboard.free[2].deaths

\* C5: no partition, persisted or in an instance's copy, holds two entries
\* whose addresses are equal when compared case-insensitively
AllBoards ==
  PersistedBoards \cup {cache[i].leaderboard[m] : i \in Instances, m \in Modes}

C5_OneEntryPerAddress ==
  \A board \in AllBoards :
    \A k, j \in 1..Len(board) :
      k # j => toLowerCase(board[k].address) # toLowerCase(board[j].address)

\* an upsert of the upper-case spelling is being saved while the persisted
\* partition holds the lower-case spelling of the same address
C5_Witness ==
  \E i \in Instances :
    /\ pc[i] = "save"
    /\ local[i].op = "updateLeaderboardEntry"
    /\ local[i].address = Addr(1, TRUE)
    /\ store.exists
    /\ \E k \in 1..Len(store.doc.leaderboard.free) :
         store.doc.leaderboard.free[k].address = Addr(1, FALSE)
    /\ \E k \in 1..Len(local[i].data.leaderboard.free) :
         local[i].data.leaderboard.free[k].address = Addr(1, TRUE)
    /\ Len(local[i].data.leaderboard.free) = Len(store.doc.leaderboard.free)

\* C1: the save of a joinPrizePool increment raises the persisted
\* prizePool.totalAmount by one USDC and prizePool.participants by 1, whatever
\* was written since that join loaded the document; two joins add 2
C1_NoLostIncrement ==
  [][\A i \in Instances :
       ( /\ pc[i] = "save"
         /\ local[i].op = "joinPrizePool"
         /\ local[i].after = "join_stats"
         /\ pc'[i] = "join_stats"
         /\ logs = << >> )
       => /\ store'.doc.prizePool.totalAmount = store.doc.prizePool.totalAmount + Unit
          /\ store'.doc.prizePool.participants = store.doc.prizePool.participants + 1]_vars

\* the amounts of a distribution, in rank order
Amounts(log) == [k \in 1..Len(log.distributions) |-> log.distributions[k].amount]

C9_Payouts ==
  \A n \in 1..Len(logs) :
    logs[n].prizePoolAmount = 100 * Unit =>
      /\ logs[n].participants = 4 =>
           Amounts(logs[n]) = <<40 * Unit, 25 * Unit, 15 * Unit, 10 * Unit>>
      /\ logs[n].participants = 5 =>
           Amounts(logs[n]) = <<40 * Unit, 25 * Unit, 15 * Unit, 5 * Unit, 5 * Unit>>

C9_PoolReset ==
  \A i \in Instances :
    ( /\ pc[i] = "save"
      /\ local[i].op = "distributePrizes"
      /\ pc'[i] = "dist_reply" )
    => store'.doc.prizePool = [totalAmount |-> 0, participants |-> 0]

C10_Refused ==
  [][\A i \in Instances :
       /\ (pc[i] = "idle" /\ pc'[i] = "dist_reset")
            => /\ Len(store.doc.leaderboard.paid) > 0
               /\ store.doc.prizePool.totalAmount > 0
       /\ (logs' # logs) => \E j \in Instances : pc[j] = "idle" /\ pc'[j] = "dist_reset"
       /\ (response' = "NothingToDistribute" /\ response # "NothingToDistribute")
            => /\ logs' = logs
               /\ store' = store
               /\ ( \/ Len(store.doc.leaderboard.paid) = 0
                    \/ store.doc.prizePool.totalAmount = 0 )]_vars

\* a request was refused on a document with paid participants and a zero pool
C10_Witness ==
  /\ response = "NothingToDistribute"
  /\ Len(store.doc.leaderboard.paid) > 0
  /\ store.doc.prizePool.totalAmount = 0
  /\ logs = << >>

\* ------------------------------------------------------------ ledger claims
\* C2: every (address, transactionHash) pair is credited at most once,
\* however often the deposit action is submitted with it
C2_CreditedOnce ==
  \A p \in BagToSet(credits) : CopiesIn(p, credits) <= 1

\* every document of a state: persisted, cached, or on its way to the store
AllDocs ==
  (IF store.exists THEN {store.doc} ELSE {})
    \cup {cache[i] : i \in Instances} \cup {local[i].data : i \in Instances}

C3_NonNegative ==
  \A d \in AllDocs : \A a \in DOMAIN d.playerBalances :
    d.playerBalances[a].balance >= 0 /\ d.playerBalances[a].pendingPrizes >= 0

C3_Rejects ==
  \A i \in Instances, a \in Holders, x \in RequestAmounts :
    /\ (Withdraw(i, a, x) /\ x > getPlayerBalance(loadData(i), a).balance)
         => response' = "InsufficientBalance" /\ store' = store /\ pc'[i] = "idle"
    /\ (ApprovePrize(i, a, x) /\ x > getPlayerBalance(loadData(i), a).pendingPrizes)
         => response' = "InsufficientPending" /\ store' = store /\ pc'[i] = "idle"

\* C3: in every document of every reachable state all balances and pending
\* prizes are at least 0, and a withdraw above the balance or an approvePrize
\* above the pending prizes is answered with an error, writes nothing and
\* leaves the persisted document as it is
C3_Ledger == []C3_NonNegative /\ [][C3_Rejects]_vars

\* a player who has withdrawn the whole balance was refused a further withdrawal
C3_Witness ==
  /\ response = "InsufficientBalance"
  /\ \E a \in DOMAIN store.doc.playerBalances :
       /\ store.doc.playerBalances[a].balance = 0
       /\ store.doc.playerBalances[a].totalWithdrawn > 0

\* the transfer the chain holds for a hash, read as the currency says
OnChainSender(h, c) ==
  IF c = "ETH" THEN Chain[h].from ELSE firstTransfer(Chain[h].logs, 1).from

OnChainRecipient(h, c) ==
  IF c = "ETH" THEN Chain[h].to ELSE firstTransfer(Chain[h].logs, 1).to

ConfiguredWallet(c) == IF c = "ETH" THEN ETH_DEPOSIT_WALLET ELSE DEPOSIT_WALLET

Mismatch(a, h, c) ==
  \/ toLowerCase(OnChainSender(h, c)) # toLowerCase(a)
  \/ toLowerCase(OnChainRecipient(h, c)) # toLowerCase(ConfiguredWallet(c))

C8_Credited ==
  /\ \A p \in BagToSet(credits) : \E c \in Currencies : ~Mismatch(p[1], p[2], c)
  /\ \A i \in Instances :
       pc[i] = "deposit_credit"
         => ~Mismatch(local[i].address, local[i].hash, local[i].currency)
  /\ \A a \in Players, h \in 1..Len(Chain), c \in Currencies :
       Mismatch(a, h, c)
         => verifyDeposit(a, h, c).error \in {"TransactionNotFound", "TransactionFailed",
                                              "NotUsdcTransfer", "SenderMismatch",
                                              "RecipientMismatch"}

C8_Rejected ==
  \A i \in Instances :
    /\ (pc[i] = "idle" /\ pc'[i] = "deposit_credit")
         => ~Mismatch(local'[i].address, local'[i].hash, local'[i].currency)
    /\ (response' \in {"SenderMismatch", "RecipientMismatch"} /\ response' # response)
         => store' = store /\ credits' = credits /\ pc' = pc

\* C8: a deposit of either currency whose on-chain sender is not the claimed
\* address, or whose on-chain recipient is not the configured wallet, is
\* answered with an error whatever the amounts are, and is never credited
C8_MismatchRejected == []C8_Credited /\ [][C8_Rejected]_vars

\* a deposit was credited and a later one was refused for its recipient
C8_Witness ==
  /\ response = "RecipientMismatch"
  /\ credits # EmptyBag

\* ---------------------------------------------------- initialisation claims
\* C6: an initialisation requested while a game-data document exists reports
\* skipped and leaves the persisted document as it is
C6_InitIsNoOp ==
  [][\A i \in Instances :
       ( /\ store.exists
         /\ \/ InitGameData(i)
            \/ InitEdgeConfig(i)
            \/ \E b \in BOOLEAN : InitEdgeConfigChecked(i, b) )
         => store' = store /\ response' = "skipped" /\ pc'[i] = "idle"]_vars

\* C7: the write of an init-game-data request that saw no document changes
\* nothing when a document exists by the time it lands
C7_LoserSkips ==
  [][\A i \in Instances :
       ( /\ pc[i] = "init_write"
         /\ local[i].op = "initGameData"
         /\ pc'[i] = "idle"
         /\ store.exists )
         => store' = store]_vars

\* ----------------------------------------------- distribution and its reset
\* C11: the save of the reset of a distribution takes exactly the distributed
\* amount from the persisted pool, so that joins that landed after the
\* distribution read the pool are still in it
C11_RelativeReset ==
  [][\A i \in Instances :
       ( /\ pc[i] = "save"
         /\ local[i].op = "distributePrizes"
         /\ pc'[i] = "dist_reply" )
       => store'.doc.prizePool.totalAmount
            = store.doc.prizePool.totalAmount - local[i].pool]_vars

\* the pending payouts of address a in the first n records of a distribution
RECURSIVE PendingIn(_, _, _)
PendingIn(distributions, a, n) ==
  IF n = 0 THEN 0
  ELSE PendingIn(distributions, a, n - 1)
         + (IF distributions[n].address = a /\ distributions[n].status = "pending"
            THEN distributions[n].amount ELSE 0)

\* the pending payouts of address a in the first n entries of the log
RECURSIVE PendingPayouts(_, _)
PendingPayouts(a, n) ==
  IF n = 0 THEN 0
  ELSE PendingPayouts(a, n - 1)
         + PendingIn(logs[n].distributions, a, Len(logs[n].distributions))

\* C12: once the distributions have answered, the pendingPrizes read for every
\* address paid by a distribution log entry is the sum of its pending payouts
C12_PendingRecorded ==
  (\A i \in Instances : pc[i] = "idle")
    => \A n \in 1..Len(logs) : \A k \in 1..Len(logs[n].distributions) :
         LET a == logs[n].distributions[k].address
         IN getPlayerBalance(store.doc, a).pendingPrizes = PendingPayouts(a, Len(logs))

\* ------------------------------------------------- destructive-write guard
\* C13: no step takes the persisted document from N > 0 leaderboard entries
\* (free + paid) to none
C13_NeverEmptied ==
  [][(store.exists /\ totalEntries(store.doc) > 0)
       => (store'.exists /\ totalEntries(store'.doc) > 0)]_vars

\* C14: a save that the destructive-write guard refuses ends its request with
\* the error GuardRejected: the request does not go on and does not answer
\* success
C14_GuardReported ==
  [][\A i \in Instances :
       (pc[i] = "save" /\ pc'[i] # "save" /\ guardBlocks(local[i].data))
         => /\ pc'[i] = "idle"
            /\ response' = "GuardRejected"]_vars

\* ------------------------------------------------------------- game events
\* C20: the save of the updatePlayerStats of a triggerPull (of a death) leaves
\* the persisted triggerPulls (deaths) of the address one above what was
\* persisted before it, whatever was written since the request read the stats
C20_NoLostEvent ==
  [][\A i \in Instances :
       (pc[i] = "save" /\ pc'[i] = "event_board")
         => LET a == local[i].address
            IN /\ local[i].op = "triggerPull"
                    => getPlayerStats(store'.doc, a).triggerPulls
                         = getPlayerStats(store.doc, a).triggerPulls + 1
               /\ local[i].op = "death"
                    => getPlayerStats(store'.doc, a).deaths
                         = getPlayerStats(store.doc, a).deaths + 1]_vars

\* ------------------------------------------------------------ balance sum
\* the sum of the balances of the addresses in S
RECURSIVE SumOver(_, _)
SumOver(balances, S) ==
  IF S = {} THEN 0
  ELSE LET a == CHOOSE x \in S : TRUE
       IN balances[a].balance + SumOver(balances, S \ {a})

BalanceSum(doc) == SumOver(doc.playerBalances, DOMAIN doc.playerBalances)

\* the debit that the write of a request carries
Debit(l) == IF l.op \in {"withdraw", "entryFee"} THEN l.amount ELSE 0

\* C15: no save lowers the sum of all persisted balances by more than the
\* debit of the operation that it belongs to
C15_SumGuarded ==
  [][\A i \in Instances :
       (pc[i] = "save" /\ pc'[i] # "save")
         => BalanceSum(store'.doc) >= BalanceSum(store.doc) - Debit(local[i])]_vars

\* --------------------------------------------------------- deposit amounts
\* the value of the transfer that the chain holds for a hash, in model units
OnChainUsd(h, c) ==
  IF c = "ETH" THEN (Chain[h].value * ETH_PRICE_USD * Unit) \div ValuePerEth
  ELSE (firstTransfer(Chain[h].logs, 1).value * Unit) \div UsdcDecimals

C16_Verified ==
  \A i \in Instances :
    (local[i].op = "deposit" /\ pc[i] \in {"deposit_credit", "save"})
      => local[i].amount = OnChainUsd(local[i].hash, local[i].currency)

C16_Credited ==
  \A i \in Instances :
    (pc[i] = "deposit_credit" /\ pc'[i] = "save")
      => LET a == local[i].address
         IN getPlayerBalance(local'[i].data, a).balance
              = getPlayerBalance(loadData(i), a).balance
                  + OnChainUsd(local[i].hash, local[i].currency)

Settled(h) == h \in 1..Len(Chain) /\ Chain[h].status = "success"

C17_Settled ==
  /\ \A p \in BagToSet(credits) : Settled(p[2])
  /\ \A i \in Instances : local[i].op = "deposit" => Settled(local[i].hash)
  /\ \A a \in Players, h \in Hashes, c \in Currencies :
       ~Settled(h) =>
         verifyDeposit(a, h, c).error
           = IF h \in 1..Len(Chain) /\ Chain[h].status = "reverted"
             THEN "TransactionFailed" ELSE "TransactionNotFound"

C17_Untouched ==
  (response' \in {"TransactionNotFound", "TransactionFailed"} /\ response' # response)
    => store' = store /\ credits' = credits /\ pc' = pc /\ cache' = cache

\* C17: a deposit whose transaction has no receipt (unknown or unconfirmed)
\* or a receipt that does not report success is answered with an error,
\* never reaches addBalance and leaves every document as it is
C17_ReceiptChecked == []C17_Settled /\ [][C17_Untouched]_vars

\* after a credited deposit, a deposit with a reverted transaction was refused
\* and the balance is what the first deposit made it
C17_Witness ==
  /\ response = "TransactionFailed"
  /\ \A i \in Instances : pc[i] = "idle"
  /\ BagCardinality(credits) = 1
  /\ BalanceSum(store.doc) = Unit

\* ------------------------------------------------------- transfer event
\* the receipt of h holds no Transfer log of the USDC contract
NoTransferEvent(h) ==
  \A k \in 1..Len(Chain[h].logs) :
    toLowerCase(Chain[h].logs[k].address) # toLowerCase(USDC_ADDRESS)

\* C18: a USDC deposit whose settled transaction calls the USDC contract but
\* holds no Transfer log of it is answered TransferEventNotFound and is not
\* credited, whatever logs other contracts left in the receipt
C18_EventNotFound ==
  [][\A i \in Instances, a \in Players, x \in ExpectedAmounts :
       \A h \in {g \in 1..Len(Chain) : Settled(g) /\ NoTransferEvent(g)
                                       /\ toLowerCase(Chain[g].to)
                                            = toLowerCase(USDC_ADDRESS)} :
         Deposit(i, a, h, x, "USDC")
           => /\ response' = "TransferEventNotFound"
              /\ pc'[i] = "idle"
              /\ credits' = credits]_vars

\* no deposit is in flight or credited whose receipt, read as its currency
\* says, holds no transfer
C18_NothingCredited ==
  \A i \in Instances :
    (local[i].op = "deposit" /\ local[i].currency = "USDC")
      => ~NoTransferEvent(local[i].hash)

\* ------------------------------------------------------ transaction history
\* C19: every deposit record in a persisted transaction history carries the
\* hash of a settled transaction as its reference, and no two deposit records
\* of an address carry the same one
C19_Traceable ==
  \A a \in DOMAIN store.doc.playerBalances :
    LET history == store.doc.playerBalances[a].transactions
        deposits == {k \in 1..Len(history) : history[k].type = "deposit"}
    IN /\ \A k \in deposits : Settled(history[k].ref)
       /\ \A k, n \in deposits : history[k].ref = history[n].ref => k = n

\* ------------------------------------------------- stats and leaderboard
\* C21: in every persisted document, each address with a playerStats record
\* has a leaderboard entry in the partition of its mode that shows the same
\* triggerPulls, deaths and maxStreak
C21_EventAtomic ==
  store.exists =>
    \A a \in DOMAIN store.doc.playerStats :
      LET stats == store.doc.playerStats[a]
          board == store.doc.leaderboard[IF stats.isPaid THEN "paid" ELSE "free"]
          index == findIndex(board, a)
      IN /\ index >= 1
         /\ board[index].triggerPulls = stats.triggerPulls
         /\ board[index].deaths = stats.deaths
         /\ board[index].maxStreak = stats.maxStreak

\* ------------------------------------------------------------------ cache
\* C22: a write that a request starts while a persisted document exists is
\* built on that document: the copy that the request modifies is the persisted
\* one, never a copy that only the instance's cache holds
C22_WriteOnFetched ==
  [][\A i \in Instances :
       ( /\ pc[i] = "idle"
         /\ pc'[i] = "save"
         /\ local'[i].op = "updateLeaderboardEntry"
         /\ store.exists )
       => cache[i] = store.doc]_vars

\* ----------------------------------------------------------- failed writes
\* C23: a save whose write fails ends its request with BackendUnavailable, and
\* the instance's copy, which later reads return, is the persisted document,
\* not the one that was not written
C23_FailureSurfaces ==
  [][\A i \in Instances :
       (SaveFailed(i) /\ local[i].data # store.doc)
         => /\ response' = "BackendUnavailable"
            /\ pc'[i] = "idle"
            /\ cache'[i] = store.doc]_vars

\* ------------------------------------------------------------ audit totals
\* C24: no step lowers the persisted totalDeposited or totalWithdrawn of an
\* address; totalDeposited changes only in the save of a deposit and
\* totalWithdrawn only in the save of a withdrawal
C24_TotalsMonotonic ==
  [][\A a \in Players :
       LET before == getPlayerBalance(store.doc, a)
           after == getPlayerBalance(store'.doc, a)
       IN /\ after.totalDeposited >= before.totalDeposited
          /\ after.totalWithdrawn >= before.totalWithdrawn
          /\ after.totalDeposited # before.totalDeposited
               => \E i \in Instances : pc[i] = "save" /\ local[i].op = "deposit"
                                        /\ pc'[i] = "idle"
          /\ after.totalWithdrawn # before.totalWithdrawn
               => \E i \in Instances : pc[i] = "save" /\ local[i].op = "withdraw"
                                        /\ pc'[i] = "idle"]_vars

\* ----------------------------------------------------------- prize approval
\* the records of doc other than that of address a
Others(doc, a) == [x \in (DOMAIN doc.playerBalances) \ {a} |-> doc.playerBalances[x]]

\* C25: approvePrize with 0 < amount <= pendingPrizes computes, from the
\* document it loaded, one in which amount has moved from the pendingPrizes
\* of the address to its balance (their sum and both totals are unchanged) and
\* every other address has the record it had; with amount > pendingPrizes it
\* is answered InsufficientPending, starts no write and changes no document
C25_ApproveMoves ==
  [][\A i \in Instances, a \in Players, x \in PrizeAmounts :
       (ApprovePrize(i, a, x) /\ x > 0)
         => LET d == loadData(i)
                b == getPlayerBalance(d, a)
            IN IF x <= b.pendingPrizes
               THEN /\ pc'[i] = "save"
                    /\ LET after == getPlayerBalance(local'[i].data, a)
                       IN /\ after.pendingPrizes = b.pendingPrizes - x
                          /\ after.balance = b.balance + x
                          /\ after.balance + after.pendingPrizes
                               = b.balance + b.pendingPrizes
                          /\ after.totalDeposited = b.totalDeposited
                          /\ after.totalWithdrawn = b.totalWithdrawn
                    /\ Others(local'[i].data, a) = Others(d, a)
               ELSE /\ response' = "InsufficientPending"
                    /\ pc'[i] = "idle"
                    /\ store' = store
                    /\ cache'[i] = d]_vars

\* one of two pending prizes of player 1 has been approved and persisted, the
\* other player holds pending prizes too, and a further approval was refused
C25_Witness ==
  /\ response = "InsufficientPending"
  /\ getPlayerBalance(store.doc, Addr(1, FALSE)).pendingPrizes = Unit
  /\ getPlayerBalance(store.doc, Addr(1, FALSE)).balance = Unit
  /\ getPlayerBalance(store.doc, Addr(2, FALSE)).pendingPrizes = 2 * Unit
  /\ \A i \in Instances : pc[i] = "idle"

\* ------------------------------------------------------------ pending prize
\* C26: a pending prize of amount for an address computes, from the document
\* it loaded, one in which the pendingPrizes of the address are higher by
\* exactly amount, its balance, totalDeposited and totalWithdrawn are as
\* loaded, and every other address has the record it had
C26_PendingOnly ==
  [][\A i \in Instances, a \in Players :
       AddPendingPrize(i, a, Unit)
         => LET d == loadData(i)
                b == getPlayerBalance(d, a)
                after == getPlayerBalance(local'[i].data, a)
            IN /\ pc'[i] = "save"
               /\ after.pendingPrizes = b.pendingPrizes + Unit
               /\ after.balance = b.balance
               /\ after.totalDeposited = b.totalDeposited
               /\ after.totalWithdrawn = b.totalWithdrawn
               /\ Others(local'[i].data, a) = Others(d, a)]_vars

\* a pending prize is on its way to the store for an address that holds a
\* balance, while the other address holds pending prizes of its own
C26_Witness ==
  \E i \in Instances :
    /\ pc[i] = "save"
    /\ local[i].op = "addPendingPrize"
    /\ getPlayerBalance(local[i].data, local[i].address).balance = Unit
    /\ getPlayerBalance(local[i].data, local[i].address).pendingPrizes = Unit
    /\ \E o \in Players \ {local[i].address} :
         getPlayerBalance(local[i].data, o).pendingPrizes = 2 * Unit

\* ------------------------------------------------- distribution records
\* the records of the log: <<log, record>> index pairs
Records(l) ==
  {p \in (1..Len(l)) \X (1..MaxPaid) : p[2] <= Len(l[p[1]].distributions)}

Status(l, p) == l[p[1]].distributions[p[2]].status

\* a pending record of distribution id for the address, compared without case
PendingMatch(id, a) ==
  \E p \in Records(logs) :
    /\ logs[p[1]].distributionId = id
    /\ toLowerCase(logs[p[1]].distributions[p[2]].address) = toLowerCase(a)
    /\ Status(logs, p) = "pending"

C27_Transitions ==
  LET changed == {p \in Records(logs) : Status(logs', p) # Status(logs, p)}
  IN /\ Len(logs') >= Len(logs)
     /\ Cardinality(changed) <= 1
     /\ \A p \in changed :
          /\ Status(logs, p) = "pending"
          /\ Status(logs', p) = "approved"
          /\ response' = "success"
     /\ \A p \in Records(logs) :
          /\ Status(logs, p) = "approved" => Status(logs', p) = "approved"
          /\ logs'[p[1]].distributions[p[2]].address
               = logs[p[1]].distributions[p[2]].address
          /\ logs'[p[1]].distributions[p[2]].amount
               = logs[p[1]].distributions[p[2]].amount

C27_Request ==
  \A i \in Instances, id \in ApproveIds \ {NoId}, a \in Addresses :
    ApproveDistribution(i, id, a)
      => IF PendingMatch(id, a)
         THEN /\ response' = "success"
              /\ ~(PendingMatch(id, a))'
              /\ \E p \in Records(logs) :
                   /\ logs[p[1]].distributionId = id
                   /\ toLowerCase(logs[p[1]].distributions[p[2]].address) = toLowerCase(a)
                   /\ Status(logs, p) = "pending"
                   /\ Status(logs', p) = "approved"
         ELSE /\ response' = "DistributionNotFound"
              /\ logs' = logs

\* C27: every step leaves an approved record approved and changes the status
\* of at most one record, from pending to approved; an approveDistribution
\* request approves the pending record matching (distributionId, address) and
\* no other, and one that finds no such pending record (a repeat among them)
\* is answered not found and leaves the log as it is
C27_PendingToApproved == [][C27_Transitions /\ C27_Request]_vars

\* the record of player 1 in the first distribution is approved, the record of
\* player 2 is pending, and the last approval request was answered not found
C27_Witness ==
  /\ response = "DistributionNotFound"
  /\ Len(logs) >= 1
  /\ \E k, j \in 1..Len(logs[1].distributions) :
       /\ logs[1].distributions[k].address = Addr(1, FALSE)
       /\ logs[1].distributions[k].status = "approved"
       /\ logs[1].distributions[j].address = Addr(2, FALSE)
       /\ logs[1].distributions[j].status = "pending"

\* ------------------------------------------------------------ payout shares
RECURSIVE SumAmounts(_, _)
SumAmounts(amounts, n) == IF n = 0 THEN 0 ELSE SumAmounts(amounts, n - 1) + amounts[n]

\* the fixed shares of the first k ranks
TopShares(totalAmount, k) ==
  SubSeq(<<(totalAmount * 40) \div 100, (totalAmount * 25) \div 100,
           (totalAmount * 15) \div 100>>, 1, k)

\* C28: in every distribution log entry the payouts add up to at most 90% of
\* prizePoolAmount; the first three are exactly 40%, 25% and 15% of it, and
\* with 3 or fewer participants nothing else is paid, so that the share of
\* the lower ranks stays in the house
C28_HouseShare ==
  \A n \in 1..Len(logs) :
    LET amounts == Amounts(logs[n])
        total == logs[n].prizePoolAmount
        top == IF Len(amounts) < 3 THEN Len(amounts) ELSE 3
    IN /\ SumAmounts(amounts, Len(amounts)) * 100 <= total * 90
       /\ SubSeq(amounts, 1, top) = TopShares(total, top)
       /\ Len(amounts) <= 3 => amounts = TopShares(total, Len(amounts))
       /\ Len(amounts) <= 3 =>
            SumAmounts(amounts, Len(amounts)) * 100 <= total * 80

\* a pool of 100 was distributed to 3 participants and reset
C28_Witness ==
  /\ \E n \in 1..Len(logs) :
       /\ logs[n].participants = 3
       /\ logs[n].prizePoolAmount = SeedPool * Unit
       /\ Amounts(logs[n]) = <<40 * Unit, 25 * Unit, 15 * Unit>>
  /\ store.doc.prizePool.totalAmount = 0

\* ------------------------------------------------------------ capped board
\* the entries of a board, without their ranks
Unranked(board) == {[board[k] EXCEPT !.rank = 0] : k \in 1..Len(board)}

C29_Capped ==
  \A board \in AllBoards \cup {local[i].data.leaderboard[m] : i \in Instances, m \in Modes} :
    /\ Len(board) <= BoardCap
    /\ \A k \in 1..Len(board) : board[k].rank = k
    /\ \A k, j \in 1..Len(board) : k < j => ~KeyBefore(board[j], board[k])

C29_Best ==
  \A i \in Instances, e \in CapEntries :
    UpdateLeaderboardEntryCapped(i, "free", e)
      => LET before == cache[i].leaderboard.free
             after == local'[i].data.leaderboard.free
             candidates ==
               {c \in Unranked(before) : toLowerCase(c.address) # toLowerCase(e.address)}
                 \cup {e}
         IN /\ Unranked(after) \subseteq candidates
            /\ Len(after) = IF Cardinality(candidates) > BoardCap
                            THEN BoardCap ELSE Cardinality(candidates)
            /\ \A c \in candidates \ Unranked(after) :
                 \A k \in 1..Len(after) : ~KeyBefore(c, after[k])
            /\ local'[i].data.playerStats = cache[i].playerStats

C29_StatsKept ==
  \A d \in {store.doc} \cup {local[i].data : i \in {j \in Instances : pc[j] = "save"}} :
    \A a \in CapAddresses :
      a \in DOMAIN d.playerStats /\ d.playerStats[a] = CapStats(a)

\* C29: a capped partition, persisted or in a copy, never holds more than
\* BoardCap entries and is sorted with ranks 1..N; the capped upsert keeps the
\* best BoardCap of the entries it had and the new one, and leaves playerStats
\* as it was, so that a dropped address still has its record
C29_TopKept == []C29_Capped /\ []C29_StatsKept /\ [][C29_Best]_vars

\* an upsert made a dropped address the best one: it is persisted at rank 1,
\* the partition is full, and the address it pushed out has its playerStats
C29_Witness ==
  /\ Len(store.doc.leaderboard.free) = BoardCap
  /\ store.doc.leaderboard.free[1].address \notin
       {CapDoc.leaderboard.free[k].address : k \in 1..BoardCap}
  /\ \E a \in CapAddresses :
       /\ \A k \in 1..BoardCap : store.doc.leaderboard.free[k].address # a
       /\ a \in DOMAIN store.doc.playerStats

\* ------------------------------------------------------- records persist
\* the addresses, in lower case, that a document holds a record for
OnBoard(doc) ==
  UNION {{toLowerCase(doc.leaderboard[m][k].address) : k \in 1..Len(doc.leaderboard[m])} :
           m \in Modes}

Known(doc) ==
  OnBoard(doc) \cup {toLowerCase(a) : a \in DOMAIN doc.playerStats}
               \cup {toLowerCase(a) : a \in DOMAIN doc.playerBalances}

\* C30: an address that has a leaderboard entry in the persisted document has
\* one after every step, and an address with any record keeps a record: two
\* concurrent upserts of two new addresses leave both on the leaderboard
C30_RecordsPersist ==
  [][store.exists =>
       /\ OnBoard(store.doc) \subseteq OnBoard(store'.doc)
       /\ Known(store.doc) \subseteq Known(store'.doc)]_vars

\* -------------------------------------------------------------------- ties
Tied(a, b) ==
  a.maxStreak = b.maxStreak /\ a.triggerPulls = b.triggerPulls /\ a.deaths = b.deaths

\* C31: in the partition that an upsert computes, the upserted entry comes
\* after every entry that ties with it on (maxStreak, triggerPulls, deaths),
\* and the other entries that tie with one another are in the order they had
C31_TiesInArrivalOrder ==
  [][\A i \in Instances :
       (pc[i] = "idle" /\ pc'[i] = "save" /\ local'[i].op = "updateLeaderboardEntry")
         => LET before == cache[i].leaderboard.free
                after == local'[i].data.leaderboard.free
                index == findIndex(after, local'[i].address)
            IN /\ index >= 1
               /\ \A k \in 1..Len(after) :
                    (k # index /\ Tied(after[k], after[index])) => k < index
               /\ \A k, j \in (1..Len(after)) \ {index} :
                    (k < j /\ Tied(after[k], after[j]))
                      => findIndex(before, after[k].address)
                           < findIndex(before, after[j].address)]_vars

\* the first of two tied persisted entries is being upserted again with the
\* same key, and the partition on its way to the store has it last
C31_Witness ==
  \E i \in Instances :
    /\ pc[i] = "save"
    /\ local[i].op = "updateLeaderboardEntry"
    /\ Len(store.doc.leaderboard.free) = 2
    /\ Tied(store.doc.leaderboard.free[1], store.doc.leaderboard.free[2])
    /\ toLowerCase(store.doc.leaderboard.free[1].address) = toLowerCase(local[i].address)
    /\ Len(local[i].data.leaderboard.free) = 2
    /\ local[i].data.leaderboard.free[2].address = local[i].address
    /\ local[i].data.leaderboard.free[1].address = store.doc.leaderboard.free[2].address
    /\ Tied(local[i].data.leaderboard.free[1], local[i].data.leaderboard.free[2])
    /\ Tied(local[i].data.leaderboard.free[2], store.doc.leaderboard.free[1])

\* ------------------------------------------------------------ event effects
Max(x, y) == IF x > y THEN x ELSE y

\* the stats that the request of instance i read, and those it hands to
\* updatePlayerStats
StatsRead(i) == getPlayerStats(cache[i], local'[i].address)
StatsWritten(i) == local'[i].data.playerStats[local'[i].address]

\* C32: the stats that a death writes have, against the stats it read, deaths
\* higher by 1, maxStreak = max(maxStreak, currentStreak), currentStreak 0 and
\* the same triggerPulls; those that a triggerPull writes have triggerPulls and
\* currentStreak higher by 1 each and the same deaths and maxStreak
C32_EventEffects ==
  [][\A i \in Instances :
       (pc[i] = "idle" /\ pc'[i] = "save")
         => /\ local'[i].op = "death"
                 => /\ StatsWritten(i).deaths = StatsRead(i).deaths + 1
                    /\ StatsWritten(i).maxStreak
                         = Max(StatsRead(i).maxStreak, StatsRead(i).currentStreak)
                    /\ StatsWritten(i).currentStreak = 0
                    /\ StatsWritten(i).triggerPulls = StatsRead(i).triggerPulls
            /\ local'[i].op = "triggerPull"
                 => /\ StatsWritten(i).triggerPulls = StatsRead(i).triggerPulls + 1
                    /\ StatsWritten(i).currentStreak = StatsRead(i).currentStreak + 1
                    /\ StatsWritten(i).deaths = StatsRead(i).deaths
                    /\ StatsWritten(i).maxStreak = StatsRead(i).maxStreak]_vars

\* a death after one pull is being saved: the streak of 1 became the maxStreak
C32_Witness ==
  \E i \in Instances :
    /\ pc[i] = "save"
    /\ local[i].op = "death"
    /\ local[i].after = "event_board"
    /\ local[i].data.playerStats[local[i].address] =
         [DefaultStats EXCEPT !.triggerPulls = 1, !.deaths = 1, !.maxStreak = 1]

NotToUsdc == {h \in 1..Len(Chain) : Settled(h) /\ toLowerCase(Chain[h].to)
                                                     # toLowerCase(USDC_ADDRESS)}

\* the receipt of h holds a USDC Transfer from address a to the deposit wallet
ValidTransferIn(h, a) ==
  \E k \in 1..Len(Chain[h].logs) :
    /\ toLowerCase(Chain[h].logs[k].address) = toLowerCase(USDC_ADDRESS)
    /\ toLowerCase(Chain[h].logs[k].from) = toLowerCase(a)
    /\ toLowerCase(Chain[h].logs[k].to) = toLowerCase(DEPOSIT_WALLET)

C34_Refused ==
  /\ \A a \in Players, h \in NotToUsdc :
       verifyDeposit(a, h, "USDC").error = "NotUsdcTransfer"
  /\ \A i \in Instances :
       (local[i].op = "deposit" /\ local[i].currency = "USDC")
         => local[i].hash \notin NotToUsdc

C34_Untouched ==
  (response' = "NotUsdcTransfer" /\ response' # response)
    => store' = store /\ credits' = credits /\ pc' = pc /\ cache' = cache

\* C34: a USDC deposit of a settled transaction that was not sent to the USDC
\* contract is answered NotUsdcTransfer whatever its logs hold, never reaches
\* addBalance, and the answer leaves every document as it is
C34_ContractChecked == []C34_Refused /\ [][C34_Untouched]_vars

\* the chain holds a transaction sent to another contract whose receipt has a
\* valid USDC Transfer from player 1 to the deposit wallet; after a credited
\* deposit a USDC deposit was refused for its contract, and player 1 holds
\* what the first deposit gave
C34_Witness ==
  /\ \E h \in NotToUsdc : ValidTransferIn(h, Addr(1, FALSE))
  /\ response = "NotUsdcTransfer"
  /\ \A i \in Instances : pc[i] = "idle"
  /\ BagCardinality(credits) = 1
  /\ getPlayerBalance(store.doc, Addr(1, FALSE)).balance = Unit

\* ----------------------------------------------------- persisted maxStreak
\* C35: no step lowers the persisted maxStreak of a player, whichever
\* instances handle the player's events and however their steps interleave
C35_MaxStreakMonotonic ==
  [][\A a \in Players :
       getPlayerStats(store'.doc, a).maxStreak
         >= getPlayerStats(store.doc, a).maxStreak]_vars

\* ------------------------------------------------- agreement at quiescence
\* the entry of address a in the partition of its mode shows the stats of a
Agrees(doc, a) ==
  LET stats == doc.playerStats[a]
      board == doc.leaderboard[IF stats.isPaid THEN "paid" ELSE "free"]
      index == findIndex(board, a)
  IN /\ index >= 1
     /\ board[index].triggerPulls = stats.triggerPulls
     /\ board[index].deaths = stats.deaths
     /\ board[index].maxStreak = stats.maxStreak

\* C36: whenever every request has been answered, each address with a
\* persisted playerStats record has a persisted leaderboard entry with the
\* same triggerPulls, deaths and maxStreak
C36_AgreeWhenIdle ==
  (\A i \in Instances : pc[i] = "idle")
    => \A a \in DOMAIN store.doc.playerStats : Agrees(store.doc, a)

\* C37: the persisted playerStats never holds two records whose addresses
\* are equal when compared case-insensitively
C37_OneRecordPerAddress ==
  \A a, b \in DOMAIN store.doc.playerStats :
    toLowerCase(a) = toLowerCase(b) => a = b

\* C38: whenever every request has been answered, no address has an entry
\* in both persisted leaderboard partitions: an address with an entry in
\* 'paid' has none in 'free'
C38_OnePartition ==
  (\A i \in Instances : pc[i] = "idle")
    => \A a \in Addresses :
         findIndex(store.doc.leaderboard.paid, a) >= 1
           => findIndex(store.doc.leaderboard.free, a) = 0

\* C39: a joinPrizePool that is accepted, so that it goes on to add its unit
\* to prizePool.totalAmount, is by an address whose persisted balance covers
\* the entry fee of 1 USDC; with a lower balance the request is rejected
C39_JoinNeedsFee ==
  [][\A i \in Instances :
       (pc[i] = "idle" /\ pc'[i] = "save" /\ local'[i].op = "joinPrizePool")
         => getPlayerBalance(store.doc, local'[i].address).balance >= Unit]_vars

\* C40: a pool to which nothing is added after it was seeded is distributed
\* at most once: the log never holds more than one entry, so that the pool
\* amounts the entries distribute never add up to more than the seeded pool
C40_DistributedOnce ==
  /\ Len(logs) <= 1
  /\ \A m, n \in 1..Len(logs) :
       m # n => logs[m].prizePoolAmount + logs[n].prizePoolAmount
                  <= logs[1].prizePoolAmount

====
